---- MODULE Spec2Model ----
(***************************************************************************)
(* Model of examples/batch_convert.py: the batch export driver             *)
(* export_documents and the top-level routine main.                        *)
(*                                                                         *)
(* export_documents is modelled statement by statement: one action per     *)
(* step of its loop, so that the order of file writes, log lines and       *)
(* counter updates is the order of the code.                               *)
(***************************************************************************)
EXTENDS Integers, Sequences, FiniteSets, TLC

\* ------------------------------------------------------------------ bounds
MaxLen == 3        \* longest sequence of conversion results handed to the driver
MaxErrors == 2     \* longest error list of one conversion result
MaxRuns == 2       \* calls of export_documents on the same output directory

\* ------------------------------------------------------- collaborators' data
\* ConversionStatus (docling.datamodel.base_models).
ConversionStatus == {"SUCCESS", "PARTIAL_SUCCESS", "FAILURE"}

\* conv_res.input.file: a path, <<parent directory, stem>>.  Two of the
\* paths share a stem.
InputFiles == {<<"a", "x">>, <<"b", "x">>, <<"a", "y">>}

\* Path.stem
stem(file) == file[2]

\* conv_res.errors: error records, each with its error_message.
ErrorList(n) == [i \in 1..n |-> i]

\* Documents whose conversion does not succeed are drawn from two of the
\* paths.
UnconvertedFiles == {<<"a", "x">>, <<"a", "y">>}

\* ConversionResult: status, input file, errors.  A SUCCESS or FAILURE
\* result carries no error record the driver reads; a PARTIAL_SUCCESS result
\* carries a non-empty error list.
ConversionResult ==
    {[status |-> "SUCCESS", file |-> f, errors |-> <<>>] : f \in InputFiles}
    \cup {[status |-> "FAILURE", file |-> f, errors |-> <<>>] :
             f \in UnconvertedFiles}
    \cup {[status |-> "PARTIAL_SUCCESS", file |-> f, errors |-> ErrorList(n)] :
             f \in UnconvertedFiles, n \in 1..MaxErrors}

SeqsUpTo(S, n) == UNION {[1..m -> S] : m \in 0..n}

\* The result sequences a caller hands to export_documents.
Inputs == SeqsUpTo(ConversionResult, MaxLen)

NoRes == [status |-> "NONE", file |-> <<"", "">>, errors |-> <<>>]
NoRet == <<>>
EmptyDir == [f \in {} |-> <<>>]

\* ------------------------------------------------------------ the module
USE_EXPERIMENTAL == FALSE

\* The renderers, in the order the SUCCESS branch calls them, each with the
\* suffix of the file it is written to.
PrimaryExports ==
    << [suffix |-> ".json",    render |-> "json.dumps(render_as_dict)"],
       [suffix |-> ".txt",     render |-> "render_as_text"],
       [suffix |-> ".md",      render |-> "render_as_markdown"],
       [suffix |-> ".doctags", render |-> "render_as_doctags"] >>

ExperimentalExports ==
    << [suffix |-> ".experimental.json",
        render |-> "json.dumps(experimental.model_dump)"],
       [suffix |-> ".experimental.yaml",
        render |-> "yaml.safe_dump(experimental.model_dump)"],
       [suffix |-> ".experimental.doctags",
        render |-> "experimental.export_to_document_tokens"],
       [suffix |-> ".experimental.md",
        render |-> "experimental.export_to_markdown"] >>

\* Variant of Exports: the document-tags export is left out.
Exports_without_doctags == SubSeq(PrimaryExports, 1, 3)

Exports ==
    IF USE_EXPERIMENTAL THEN PrimaryExports \o ExperimentalExports
    ELSE PrimaryExports

\* What a renderer returns for a result: determined by the renderer and the
\* document converted.
Rendered(res, e) == <<e.render, res.file>>

\* output_dir / f"{doc_filename}{suffix}"
FileName(name, e) == <<name, e.suffix>>

\* A directory maps the names of its files to their contents, a sequence of
\* the chunks written.
Put(dir, f, c) == [g \in (DOMAIN dir) \cup {f} |-> IF g = f THEN c ELSE dir[g]]

\* Variant of open_w: the file is opened for appending.
open_a(dir, f) == IF f \in DOMAIN dir THEN dir ELSE Put(dir, f, <<>>)

\* Path.open("w"): the file is created, or truncated when it exists.
open_w(dir, f) == Put(dir, f, <<>>)

\* fp.write(text)
write(dir, f, text) == Put(dir, f, Append(dir[f], text))

\* The log lines.
PartialLine(res) == <<"partial", res.file>>
ErrorLine(item) == <<"error", <<item>>>>
FailedLine(res) == <<"failed", res.file>>
SummaryLine(total, failed, partial) == <<"summary", <<total, failed, partial>>>>

\* ------------------------------------------------------------------ state
VARIABLES
    pc,                     \* where control is
    conv_results,           \* the sequence handed to export_documents
    pos,                    \* results taken from the iterator so far
    conv_res,               \* the loop variable
    success_count, failure_count, partial_success_count,
    doc_filename,
    k,                      \* index of the next export of the SUCCESS branch
    j,                      \* index of the next item of conv_res.errors
    dir_exists,             \* output_dir exists
    fs,                     \* the files of output_dir
    log,                    \* the lines logged by the current call
    ret,                    \* the value returned by the current call
    exc,                    \* the exception that left the routine, or "None"
    runs,                   \* calls of export_documents so far
    prev,                   \* directory and return value after the previous call
    mark,                   \* directory, log and counters when conv_res was taken
    trace                   \* the effects of the current call, in order

vars == <<pc, conv_results, pos, conv_res, success_count, failure_count,
          partial_success_count, doc_filename, k, j, dir_exists, fs, log, ret,
          exc, runs, prev, mark, trace>>

counters == <<success_count, failure_count, partial_success_count>>

Snapshot ==
    [fs |-> fs, loglen |-> Len(log), success_count |-> success_count,
     partial_success_count |-> partial_success_count,
     failure_count |-> failure_count]

Init ==
    /\ pc = "idle"
    /\ conv_results = <<>>
    /\ pos = 0
    /\ conv_res = NoRes
    /\ success_count = 0 /\ failure_count = 0 /\ partial_success_count = 0
    /\ doc_filename = ""
    /\ k = 1 /\ j = 1
    /\ dir_exists = FALSE
    /\ fs = EmptyDir
    /\ log = <<>>
    /\ ret = NoRet
    /\ exc = "None"
    /\ runs = 0
    /\ prev = [fs |-> EmptyDir, ret |-> NoRet]
    /\ mark = [fs |-> EmptyDir, loglen |-> 0, success_count |-> 0,
               partial_success_count |-> 0, failure_count |-> 0]
    /\ trace = <<>>

\* ------------------------------------------------------- export_documents
\* The call: output_dir.mkdir(parents=True, exist_ok=True), counters at 0.
\* A caller that runs the driver again hands it the same results, on the
\* same directory.
export_documents ==
    /\ pc \in {"idle", "returned"}
    /\ runs < MaxRuns
    /\ \E results \in (IF runs = 0 THEN Inputs ELSE {conv_results}) :
          conv_results' = results
    /\ runs' = runs + 1
    /\ prev' = [fs |-> fs, ret |-> ret]
    /\ dir_exists' = TRUE
    /\ success_count' = 0 /\ failure_count' = 0 /\ partial_success_count' = 0
    /\ pos' = 0
    /\ conv_res' = NoRes
    /\ log' = <<>> /\ trace' = <<>> /\ ret' = NoRet
    /\ mark' = [Snapshot EXCEPT !.loglen = 0, !.success_count = 0,
                                !.partial_success_count = 0, !.failure_count = 0]
    /\ doc_filename' = "" /\ k' = 1 /\ j' = 1
    /\ pc' = "for"
    /\ UNCHANGED <<fs, exc>>

\* Variant of for_next: the result before is handed out again.
for_next_again ==
    /\ pc = "for"
    /\ IF pos < Len(conv_results)
       THEN /\ pos' = pos + 1
            /\ conv_res' = conv_results[IF pos = 0 THEN 1 ELSE pos]
            /\ mark' = Snapshot
            /\ trace' = Append(trace, <<"next", pos + 1>>)
            /\ pc' = "body"
       ELSE /\ pc' = "summary"
            /\ UNCHANGED <<pos, conv_res, mark, trace>>
    /\ UNCHANGED <<conv_results, counters, doc_filename, k, j, dir_exists, fs,
                   log, ret, exc, runs, prev>>

\* for conv_res in conv_results: the next result is taken from the iterator,
\* or the loop ends.
for_next ==
    /\ pc = "for"
    /\ IF pos < Len(conv_results)
       THEN /\ pos' = pos + 1
            /\ conv_res' = conv_results[pos + 1]
            /\ mark' = Snapshot
            /\ trace' = Append(trace, <<"next", pos + 1>>)
            /\ pc' = "body"
       ELSE /\ pc' = "summary"
            /\ UNCHANGED <<pos, conv_res, mark, trace>>
    /\ UNCHANGED <<conv_results, counters, doc_filename, k, j, dir_exists, fs,
                   log, ret, exc, runs, prev>>

\* if conv_res.status == ConversionStatus.SUCCESS: the result is counted and
\* the base file name taken from the stem of the input file.
success_branch ==
    /\ pc = "body"
    /\ conv_res.status = "SUCCESS"
    /\ success_count' = success_count + 1
    /\ doc_filename' = stem(conv_res.file)
    /\ k' = 1
    /\ pc' = "export"
    /\ UNCHANGED <<conv_results, pos, conv_res, failure_count,
                   partial_success_count, j, dir_exists, fs, log, ret, exc,
                   runs, prev, mark, trace>>

\* After the k-th export: the next one, or the next iteration.
AfterExport == IF k < Len(Exports) THEN "export" ELSE "for"

\* Variant of write_export: an I/O error is swallowed and the loop goes on.
write_export_swallowing ==
    /\ pc = "export"
    /\ LET e == Exports[k]
           f == FileName(doc_filename, e)
       IN \/ /\ fs' = write(open_w(fs, f), f, Rendered(conv_res, e))
             /\ trace' = Append(trace, <<"write", pos, f>>)
             /\ UNCHANGED exc
          \/ /\ exc' = "OSError"
             /\ UNCHANGED <<fs, trace>>
    /\ k' = IF k < Len(Exports) THEN k + 1 ELSE 1
    /\ pc' = AfterExport
    /\ UNCHANGED <<conv_results, pos, conv_res, counters, doc_filename, j,
                   dir_exists, log, ret, runs, prev, mark>>

\* with (output_dir / f"{doc_filename}<suffix>").open("w") as fp:
\*     fp.write(<rendering>)
\* The k-th export of the SUCCESS branch.  open or write may raise an I/O
\* error, which nothing in export_documents catches.
write_export ==
    /\ pc = "export"
    /\ LET e == Exports[k]
           f == FileName(doc_filename, e)
       IN \/ \* the file is opened and written
             /\ fs' = write(open_w(fs, f), f, Rendered(conv_res, e))
             /\ trace' = Append(trace, <<"write", pos, f>>)
             /\ k' = IF k < Len(Exports) THEN k + 1 ELSE 1
             /\ pc' = AfterExport
             /\ UNCHANGED exc
          \/ \* open raises
             /\ exc' = "OSError"
             /\ pc' = "raised"
             /\ UNCHANGED <<fs, trace, k>>
          \/ \* open succeeds, write raises
             /\ fs' = open_w(fs, f)
             /\ trace' = Append(trace, <<"write", pos, f>>)
             /\ exc' = "OSError"
             /\ pc' = "raised"
             /\ UNCHANGED k
    /\ UNCHANGED <<conv_results, pos, conv_res, counters, doc_filename, j,
                   dir_exists, log, ret, runs, prev, mark>>

\* elif conv_res.status == ConversionStatus.PARTIAL_SUCCESS: the line naming
\* the document.
partial_branch ==
    /\ pc = "body"
    /\ conv_res.status = "PARTIAL_SUCCESS"
    /\ log' = Append(log, PartialLine(conv_res))
    /\ trace' = Append(trace, <<"log", pos>>)
    /\ j' = 1
    /\ pc' = "errors"
    /\ UNCHANGED <<conv_results, pos, conv_res, counters, doc_filename, k,
                   dir_exists, fs, ret, exc, runs, prev, mark>>

\* Variant of log_error_item: the error list is walked from its end.
log_error_item_reversed ==
    /\ pc = "errors"
    /\ j <= Len(conv_res.errors)
    /\ log' = Append(log, ErrorLine(conv_res.errors[Len(conv_res.errors) + 1 - j]))
    /\ trace' = Append(trace, <<"log", pos>>)
    /\ j' = j + 1
    /\ UNCHANGED <<pc, conv_results, pos, conv_res, counters, doc_filename, k,
                   dir_exists, fs, ret, exc, runs, prev, mark>>

\* for item in conv_res.errors: _log.info(item.error_message)
log_error_item ==
    /\ pc = "errors"
    /\ j <= Len(conv_res.errors)
    /\ log' = Append(log, ErrorLine(conv_res.errors[j]))
    /\ trace' = Append(trace, <<"log", pos>>)
    /\ j' = j + 1
    /\ UNCHANGED <<pc, conv_results, pos, conv_res, counters, doc_filename, k,
                   dir_exists, fs, ret, exc, runs, prev, mark>>

\* partial_success_count += 1, once the error list is exhausted.
partial_count ==
    /\ pc = "errors"
    /\ j > Len(conv_res.errors)
    /\ partial_success_count' = partial_success_count + 1
    /\ j' = 1
    /\ pc' = "for"
    /\ UNCHANGED <<conv_results, pos, conv_res, success_count, failure_count,
                   doc_filename, k, dir_exists, fs, log, ret, exc, runs, prev,
                   mark, trace>>

\* Variant of failure_branch: a failed document is escalated at once.
failure_branch_raising ==
    /\ pc = "body"
    /\ conv_res.status \notin {"SUCCESS", "PARTIAL_SUCCESS"}
    /\ log' = Append(log, FailedLine(conv_res))
    /\ trace' = Append(trace, <<"log", pos>>)
    /\ exc' = "RuntimeError"
    /\ pc' = "raised"
    /\ UNCHANGED <<conv_results, pos, conv_res, counters, doc_filename, k, j,
                   dir_exists, fs, ret, runs, prev, mark>>

\* else: the line naming the document that failed to convert.
failure_branch ==
    /\ pc = "body"
    /\ conv_res.status \notin {"SUCCESS", "PARTIAL_SUCCESS"}
    /\ log' = Append(log, FailedLine(conv_res))
    /\ trace' = Append(trace, <<"log", pos>>)
    /\ pc' = "failed"
    /\ UNCHANGED <<conv_results, pos, conv_res, counters, doc_filename, k, j,
                   dir_exists, fs, ret, exc, runs, prev, mark>>

\* Variant of failure_count_incr: the wrong counter is incremented.
failure_count_incr_partial ==
    /\ pc = "failed"
    /\ partial_success_count' = partial_success_count + 1
    /\ pc' = "for"
    /\ UNCHANGED <<conv_results, pos, conv_res, success_count, failure_count,
                   doc_filename, k, j, dir_exists, fs, log, ret, exc, runs,
                   prev, mark, trace>>

\* failure_count += 1
failure_count_incr ==
    /\ pc = "failed"
    /\ failure_count' = failure_count + 1
    /\ pc' = "for"
    /\ UNCHANGED <<conv_results, pos, conv_res, success_count,
                   partial_success_count, doc_filename, k, j, dir_exists, fs,
                   log, ret, exc, runs, prev, mark, trace>>

\* Variant of log_summary: the failed and partial counts change places.
log_summary_swapped ==
    /\ pc = "summary"
    /\ log' = Append(log,
                 SummaryLine(success_count + partial_success_count + failure_count,
                             partial_success_count, failure_count))
    /\ trace' = Append(trace, <<"summary", pos + 1>>)
    /\ pc' = "return"
    /\ UNCHANGED <<conv_results, pos, conv_res, counters, doc_filename, k, j,
                   dir_exists, fs, ret, exc, runs, prev, mark>>

\* The summary line, after the loop.
log_summary ==
    /\ pc = "summary"
    /\ log' = Append(log,
                 SummaryLine(success_count + partial_success_count + failure_count,
                             failure_count, partial_success_count))
    /\ trace' = Append(trace, <<"summary", pos + 1>>)
    /\ pc' = "return"
    /\ UNCHANGED <<conv_results, pos, conv_res, counters, doc_filename, k, j,
                   dir_exists, fs, ret, exc, runs, prev, mark>>

\* Variant of return_counts: the last two components change places.
return_counts_swapped ==
    /\ pc = "return"
    /\ ret' = <<success_count, failure_count, partial_success_count>>
    /\ pc' = "returned"
    /\ UNCHANGED <<conv_results, pos, conv_res, counters, doc_filename, k, j,
                   dir_exists, fs, log, exc, runs, prev, mark, trace>>

\* return success_count, partial_success_count, failure_count
return_counts ==
    /\ pc = "return"
    /\ ret' = <<success_count, partial_success_count, failure_count>>
    /\ pc' = "returned"
    /\ UNCHANGED <<conv_results, pos, conv_res, counters, doc_filename, k, j,
                   dir_exists, fs, log, exc, runs, prev, mark, trace>>

\* ------------------------------------------------------------------- main
\* main: logging is configured and the input paths listed; the converter is
\* then constructed from PdfDocumentConverter and StandardModelPipeline, names
\* the module neither imports nor defines, so evaluating them raises
\* NameError and main ends there.
main ==
    /\ pc = "idle"
    /\ exc' = "NameError"
    /\ pc' = "main_exit"
    /\ UNCHANGED <<conv_results, pos, conv_res, counters, doc_filename, k, j,
                   dir_exists, fs, log, ret, runs, prev, mark, trace>>

Next ==
    \/ export_documents
    \/ for_next
    \/ success_branch
    \/ write_export
    \/ partial_branch
    \/ log_error_item
    \/ partial_count
    \/ failure_branch
    \/ failure_count_incr
    \/ log_summary
    \/ return_counts
    \/ main

Spec == Init /\ [][Next]_vars

\* ================================================================ claims
Indices == 1..Len(conv_results)
Count(s) == Cardinality({i \in Indices : conv_results[i].status = s})
SuccessIdx == {i \in Indices : conv_results[i].status = "SUCCESS"}
Sum == success_count + partial_success_count + failure_count

\* The suffixes of the files a SUCCESS result is exported to.
ExpectedSuffixes ==
    IF USE_EXPERIMENTAL
    THEN <<".json", ".txt", ".md", ".doctags", ".experimental.json",
           ".experimental.yaml", ".experimental.doctags", ".experimental.md">>
    ELSE <<".json", ".txt", ".md", ".doctags">>
ExpectedCount == IF USE_EXPERIMENTAL THEN 8 ELSE 4
ExpectedNames(i) ==
    {<<stem(conv_results[i].file), ExpectedSuffixes[n]>> :
        n \in 1..Len(ExpectedSuffixes)}

\* The files of the directory that hold a rendering of the i-th result's
\* document, and nothing else.
FilesHolding(i) ==
    {f \in DOMAIN fs : Len(fs[f]) = 1 /\ fs[f][1][2] = conv_results[i].file}

\* The files written while the i-th result was the current one, in order.
IsWriteOf(i, e) == e[1] = "write" /\ e[2] = i
WritesOf(i) ==
    LET at == {p \in 1..Len(trace) : IsWriteOf(i, trace[p])}
    IN  [f \in {trace[p][3] : p \in at} |->
            Cardinality({p \in at : trace[p][3] = f})]

\* The last SUCCESS result with the same stem as the i-th.
LastWithStem(i) ==
    CHOOSE l \in SuccessIdx :
        /\ stem(conv_results[l].file) = stem(conv_results[i].file)
        /\ \A m \in SuccessIdx :
              stem(conv_results[m].file) = stem(conv_results[i].file) => m <= l

LogSinceMark == SubSeq(log, mark.loglen + 1, Len(log))
Summaries == {i \in 1..Len(log) : log[i][1] = "summary"}
IsNext(e) == e[1] = "next"

\* C1: when export_documents returns, the triple it returns is (number of
\* SUCCESS results, number of PARTIAL_SUCCESS results, number of all other
\* results) of the sequence it was given, and the three sum to the length
\* of the sequence; the empty sequence gives (0, 0, 0).
C1_CountsPartitionResults ==
    pc = "returned" =>
        /\ ret = <<Count("SUCCESS"), Count("PARTIAL_SUCCESS"),
                   Len(conv_results) - Count("SUCCESS") - Count("PARTIAL_SUCCESS")>>
        /\ ret[1] + ret[2] + ret[3] = Len(conv_results)
        /\ (conv_results = <<>> => ret = <<0, 0, 0>>)

C1_Witness ==
    /\ pc = "returned"
    /\ Len(conv_results) = 3
    /\ ret = <<1, 1, 1>>

\* C2 as stated: when export_documents returns, every SUCCESS result of the
\* sequence has exactly four files of its own in the output directory (eight
\* with USE_EXPERIMENTAL), named after its stem, also when two SUCCESS
\* results have the same stem.
C2_FourFilesPerResult ==
    pc = "returned" =>
        \A i \in SuccessIdx :
            /\ FilesHolding(i) = ExpectedNames(i)
            /\ Cardinality(FilesHolding(i)) = ExpectedCount

\* C2 as amended: for every SUCCESS result export_documents writes exactly
\* the four files <stem>.json, <stem>.txt, <stem>.md and <stem>.doctags
\* (eight with USE_EXPERIMENTAL), each once, creating or overwriting it;
\* when it returns each of these files holds the rendering of the last
\* SUCCESS result with that stem, and the directory holds four files per
\* distinct stem of the SUCCESS results, not four per result.
C2_FourFilesPerStem ==
    pc = "returned" =>
        /\ \A i \in SuccessIdx :
              /\ Cardinality(ExpectedNames(i)) = ExpectedCount
              /\ WritesOf(i) = [f \in ExpectedNames(i) |-> 1]
              /\ FilesHolding(LastWithStem(i)) = ExpectedNames(i)
        /\ DOMAIN fs = UNION {ExpectedNames(i) : i \in SuccessIdx}

C2_Witness ==
    /\ pc = "returned"
    /\ \E i, l \in SuccessIdx :
          /\ i < l
          /\ stem(conv_results[i].file) = stem(conv_results[l].file)
          /\ conv_results[i].file # conv_results[l].file
          /\ FilesHolding(l) = ExpectedNames(i)
    /\ \E i \in SuccessIdx : LastWithStem(i) = i

\* C3 as stated: when main ends, it has raised the fatal RuntimeError if the
\* export driver reported failure_count > 0, and has ended normally
\* otherwise.
C3_MainOutcome ==
    pc = "main_exit" =>
        exc = (IF failure_count > 0 THEN "RuntimeError" ELSE "None")

\* C4: once writing an export file has raised an I/O error, the error has
\* left export_documents: control is not in the loop, no later result is
\* taken, no file is written, no line (the summary included) is logged and
\* no triple is returned.
C4_IOErrorPropagates ==
    /\ [](exc = "OSError" =>
            /\ pc = "raised"
            /\ ret = NoRet
            /\ Summaries = {}
            /\ conv_res.status = "SUCCESS"
            /\ pos >= 1 /\ conv_res = conv_results[pos])
    /\ [][exc = "OSError" => UNCHANGED <<pos, fs, log, ret, trace>>]_vars

C4_Witness ==
    /\ exc = "OSError"
    /\ pc = "raised"
    /\ k = 2
    /\ pos < Len(conv_results)
    /\ <<doc_filename, ".json">> \in DOMAIN fs
    /\ <<doc_filename, ".txt">> \notin DOMAIN fs

C6_PartialSuccessHandling ==
    (pc \in {"errors", "for"} /\ conv_res.status = "PARTIAL_SUCCESS") =>
        /\ fs = mark.fs
        /\ \A p \in 1..Len(trace) : ~IsWriteOf(pos, trace[p])
        /\ success_count = mark.success_count
        /\ failure_count = mark.failure_count
        /\ LogSinceMark =
              <<PartialLine(conv_res)>> \o
              [i \in 1..(IF pc = "for" THEN Len(conv_res.errors) ELSE j - 1) |->
                  ErrorLine(conv_res.errors[i])]
        /\ partial_success_count =
              mark.partial_success_count + (IF pc = "for" THEN 1 ELSE 0)

C6_Witness ==
    /\ pc = "for"
    /\ conv_res.status = "PARTIAL_SUCCESS"
    /\ Len(conv_res.errors) = 2
    /\ Len(LogSinceMark) = 3
    /\ mark.fs # EmptyDir

\* C7: while a result that is neither SUCCESS nor PARTIAL_SUCCESS is
\* processed no file is written and the success and partial-success counters
\* do not change; exactly one line is logged for it, naming the document;
\* and once it is processed the failure counter has grown by exactly one.
C7_FailureHandling ==
    (pc \in {"failed", "for"}
     /\ conv_res.status \notin {"SUCCESS", "PARTIAL_SUCCESS", "NONE"}) =>
        /\ fs = mark.fs
        /\ \A p \in 1..Len(trace) : ~IsWriteOf(pos, trace[p])
        /\ success_count = mark.success_count
        /\ partial_success_count = mark.partial_success_count
        /\ LogSinceMark = <<FailedLine(conv_res)>>
        /\ failure_count = mark.failure_count + (IF pc = "for" THEN 1 ELSE 0)

C7_Witness ==
    /\ pc = "for"
    /\ conv_res.status = "FAILURE"
    /\ failure_count = 2
    /\ mark.fs # EmptyDir

\* C8: when export_documents has been run again on the same output
\* directory with the same results, the directory holds the same files with
\* the same contents as after the run before, and the same triple is
\* returned.
C8_Idempotent ==
    (pc = "returned" /\ runs >= 2) =>
        /\ fs = prev.fs
        /\ ret = prev.ret

C8_Witness ==
    /\ pc = "returned"
    /\ runs = 2
    /\ fs = prev.fs
    /\ \E i, l \in SuccessIdx :
          /\ stem(conv_results[i].file) = stem(conv_results[l].file)
          /\ conv_results[i].file # conv_results[l].file
    /\ \E i \in Indices : conv_results[i].status = "FAILURE"

\* C9: the summary line is logged exactly once in a run that completes, as
\* the last effect of the run, after every result has been taken; it reports
\* the number of results, the failure count and the partial-success count
\* that the run returns; and it is not logged before the loop has ended.
C9_SummaryOnceAtEnd ==
    /\ (pc \in {"return", "returned"} =>
          /\ Cardinality(Summaries) = 1
          /\ Summaries = {Len(log)}
          /\ trace[Len(trace)][1] = "summary"
          /\ pos = Len(conv_results)
          /\ log[Len(log)] =
                SummaryLine(Len(conv_results), Count("FAILURE"),
                            Count("PARTIAL_SUCCESS")))
    /\ (pc = "returned" =>
          log[Len(log)] = SummaryLine(Len(conv_results), ret[3], ret[2]))
    /\ (pc \notin {"return", "returned"} => Summaries = {})

C9_Witness ==
    /\ pc = "returned"
    /\ Len(conv_results) = 3
    /\ conv_results[1].status = "SUCCESS"
    /\ conv_results[2].status = "PARTIAL_SUCCESS"
    /\ conv_results[3].status = "FAILURE"
    /\ log[Len(log)] = SummaryLine(3, 1, 1)

\* The results are taken one at a time, in order, each once, and the effects
\* of a result come after it is taken and before the next one is taken.
SinglePassInOrder ==
    /\ pos \in 0..Len(conv_results)
    /\ (pos >= 1 /\ pc # "idle" => conv_res = conv_results[pos])
    /\ SelectSeq(trace, IsNext) = [i \in 1..pos |-> <<"next", i>>]
    /\ \A p, q \in 1..Len(trace) : p < q => trace[p][2] <= trace[q][2]
    /\ \A p \in 1..Len(trace) :
          trace[p][1] \in {"write", "log"} =>
              \E q \in 1..(p - 1) : IsNext(trace[q]) /\ trace[q][2] = trace[p][2]

InLoop == pc \in {"for", "body", "export", "errors", "failed"}

\* C10 as stated: single pass in order, and at every point of the loop the
\* three counters sum to the number of results taken so far, the current
\* result being counted as soon as it is classified (only between taking a
\* result and classifying it is the sum one less).
C10_CountedWhenClassified ==
    /\ SinglePassInOrder
    /\ (InLoop => Sum = (IF pc = "body" THEN pos - 1 ELSE pos))

\* C10 as amended: single pass in order; at the head of each iteration and
\* after the loop the three counters sum to the number of results taken; a
\* SUCCESS result is counted as soon as it is classified, before its files
\* are written; a PARTIAL_SUCCESS or FAILURE result is counted only after
\* its log lines, so while they are logged the sum is one less than the
\* number of results taken.
C10_SinglePassCountedByIterationEnd ==
    /\ SinglePassInOrder
    /\ (pc \in {"for", "export", "raised", "summary", "return", "returned"} =>
          Sum = pos)
    /\ (pc \in {"body", "errors", "failed"} => Sum = pos - 1)

C10_Witness ==
    /\ pc = "errors"
    /\ j = 2
    /\ pos = 2
    /\ Sum = 1
    /\ Len(trace) >= 4

====
